---- MODULE Spec2Model ----
(***************************************************************************)
(* Grade portal (src/app.py): a Flask application over a relational store  *)
(* with three tables (links, grades, students), a cookie session holding   *)
(* the admin flag, and request handlers run by concurrent workers.         *)
(*                                                                         *)
(* Text is modelled as a sequence of one-character strings, so that        *)
(* str.strip() and float() are computed and not assumed.  A Python float   *)
(* is modelled as an integer, with three reserved encodings for nan, inf   *)
(* and -inf; comparisons and additions follow IEEE-754 on those.           *)
(***************************************************************************)
EXTENDS Integers, Sequences, FiniteSets, TLC

VARIABLES
    backend,    \* the store behind SQLALCHEMY_DATABASE_URI: "sqlite" | "postgresql"
    links,      \* table links: token -> row
    students,   \* table students: sequence of rows, in insertion (id) order
    grades,     \* table grades: set of rows, each with its primary key id
    grade_seq,  \* postgresql only: last value of the sequence behind grades.id
    session,    \* the browser session cookie: [is_admin |-> BOOLEAN]
    clock,      \* last value read from datetime.datetime.utcnow()
    workers,    \* per request worker: idle, or the request it is in the middle of
    response,   \* the response of the request that completed last
    deleted_ids \* history: the ids of the grades rows that deletes have removed

vars ==
    <<backend, links, students, grades, grade_seq, session, clock, workers, response,
      deleted_ids>>

store == <<links, students, grades>>

-----------------------------------------------------------------------------
(* Bounds of the model *)

MaxClock == 1

-----------------------------------------------------------------------------
(* Configuration *)

ADMIN_PASSWORD == <<"N","C","2","6">>
PASSING_SCORE == 75
DEFAULT_PERIOD == <<"2","6","-","1">>
RISK_LOW_SCORE == 70
RISK_DROP_POINTS == 10

-----------------------------------------------------------------------------
(* Python floats *)

NaN == 777777
Inf == 1000000
NegInf == -1000000

PyLt(a, b) == a # NaN /\ b # NaN /\ a < b
PyGt(a, b) == a # NaN /\ b # NaN /\ a > b
PyGe(a, b) == a # NaN /\ b # NaN /\ a >= b

PyAdd(a, b) ==
    IF a = NaN \/ b = NaN THEN NaN
    ELSE IF a = Inf \/ b = Inf THEN (IF a = NegInf \/ b = NegInf THEN NaN ELSE Inf)
    ELSE IF a = NegInf \/ b = NegInf THEN NegInf
    ELSE a + b

PySub(a, b) ==
    IF a = NaN \/ b = NaN THEN NaN
    ELSE IF a \in {Inf, NegInf} THEN (IF a = b THEN NaN ELSE a)
    ELSE IF b = Inf THEN NegInf
    ELSE IF b = NegInf THEN Inf
    ELSE a - b

-----------------------------------------------------------------------------
(* Python text *)

RECURSIVE LStrip(_)
LStrip(s) == IF s # <<>> /\ Head(s) = " " THEN LStrip(Tail(s)) ELSE s

RECURSIVE RStrip(_)
RStrip(s) ==
    IF s # <<>> /\ s[Len(s)] = " " THEN RStrip(SubSeq(s, 1, Len(s) - 1)) ELSE s

strip(s) == RStrip(LStrip(s))

DigitValue(c) ==
    CASE c = "0" -> 0 [] c = "1" -> 1 [] c = "2" -> 2 [] c = "3" -> 3 [] c = "4" -> 4
      [] c = "5" -> 5 [] c = "6" -> 6 [] c = "7" -> 7 [] c = "8" -> 8 [] c = "9" -> 9

Digits == {"0", "1", "2", "3", "4", "5", "6", "7", "8", "9"}

RECURSIVE DecimalValue(_)
DecimalValue(s) ==
    IF s = <<>> THEN 0 ELSE 10 * DecimalValue(SubSeq(s, 1, Len(s) - 1)) + DigitValue(s[Len(s)])

(* float(v) on the literals the model feeds it: surrounding blanks are     *)
(* ignored, then an optional sign, then "nan", "inf" or decimal digits.    *)
(* Anything else raises ValueError ([ok |-> FALSE]).                       *)
float(v) ==
    LET s == strip(v)
        neg == s # <<>> /\ Head(s) = "-"
        body == IF s # <<>> /\ Head(s) \in {"-", "+"} THEN Tail(s) ELSE s
    IN  IF body = <<"n", "a", "n">> THEN [ok |-> TRUE, n |-> NaN]
        ELSE IF body = <<"i", "n", "f">> THEN [ok |-> TRUE, n |-> IF neg THEN NegInf ELSE Inf]
        ELSE IF body # <<>> /\ \A i \in 1..Len(body) : body[i] \in Digits
             THEN [ok |-> TRUE, n |-> IF neg THEN 0 - DecimalValue(body) ELSE DecimalValue(body)]
        ELSE [ok |-> FALSE, n |-> 0]

-----------------------------------------------------------------------------
(* Helpers *)

(* safe_float: the parsed number, or the ValueError it raises. *)
safe_float(v, field, min_v, max_v) ==
    LET p == float(v)
    IN  IF ~p.ok THEN [ok |-> FALSE, n |-> 0, field |-> field, error |-> "must be a number"]
        ELSE IF PyLt(p.n, min_v) \/ PyGt(p.n, max_v)
             THEN [ok |-> FALSE, n |-> 0, field |-> field, error |-> "must be between"]
        ELSE [ok |-> TRUE, n |-> p.n, field |-> field, error |-> "none"]

is_admin_always == TRUE

is_admin == session.is_admin

pass_status_strict(score) == IF PyGt(score, PASSING_SCORE) THEN "PASSED" ELSE "FAILED"

pass_status(score) == IF PyGe(score, PASSING_SCORE) THEN "PASSED" ELSE "FAILED"

(* sorted(xs, key=...): CPython's list.sort on a short list.  It finds the   *)
(* run the list starts with (reversing a strictly descending one) and      *)
(* inserts the remaining elements by binary search, comparing keys with <. *)
(* The result is a sequence of positions of xs.                            *)
RECURSIVE AscendingRunEnd(_, _)
AscendingRunEnd(k, i) ==
    IF i < Len(k) /\ ~PyLt(k[i + 1], k[i]) THEN AscendingRunEnd(k, i + 1) ELSE i

RECURSIVE DescendingRunEnd(_, _)
DescendingRunEnd(k, i) ==
    IF i < Len(k) /\ PyLt(k[i + 1], k[i]) THEN DescendingRunEnd(k, i + 1) ELSE i

count_run(k) ==
    IF Len(k) < 2 THEN [n |-> Len(k), descending |-> FALSE]
    ELSE IF PyLt(k[2], k[1]) THEN [n |-> DescendingRunEnd(k, 2), descending |-> TRUE]
    ELSE [n |-> AscendingRunEnd(k, 2), descending |-> FALSE]

RECURSIVE BinarySearch(_, _, _, _, _)
BinarySearch(k, perm, pivot, l, r) ==
    IF l >= r THEN l
    ELSE LET p == l + ((r - l) \div 2)
         IN  IF PyLt(k[pivot], k[perm[p]]) THEN BinarySearch(k, perm, pivot, l, p)
             ELSE BinarySearch(k, perm, pivot, p + 1, r)

RECURSIVE binarysort(_, _, _)
binarysort(k, perm, start) ==
    IF start > Len(perm) THEN perm
    ELSE LET pos == BinarySearch(k, perm, perm[start], 1, start)
         IN  binarysort(k,
                 SubSeq(perm, 1, pos - 1) \o <<perm[start]>> \o SubSeq(perm, pos, start - 1)
                     \o SubSeq(perm, start + 1, Len(perm)),
                 start + 1)

sorted_positions(k) ==
    LET run == count_run(k)
        first == [i \in 1..Len(k) |->
                    IF run.descending /\ i <= run.n THEN run.n + 1 - i ELSE i]
    IN  binarysort(k, first, run.n + 1)

(* sorted(xs, key=lambda x: keys[x]) where keys[i] is the key of xs[i]. *)
sorted(xs, keys) == LET perm == sorted_positions(keys) IN [i \in 1..Len(xs) |-> xs[perm[i]]]

-----------------------------------------------------------------------------
(* Store and responses *)

(* None, as stored in a nullable text column: no text equals it. *)
None == <<"<None>">>

or_none(text) == IF text = <<>> THEN None ELSE text

(* The request workers of the deployment (threads or processes). *)
Workers == {"w1", "w2"}

Idle == [op |-> "idle"]

Reply(op, code, page, data) == [op |-> op, code |-> code, page |-> page, data |-> data]

(* redirect(url_for("login_page")) *)
require_admin(op) == Reply(op, 302, "login_page", <<>>)

(* Flask's answer to an exception no handler catches. *)
InternalServerError(op, exc) == Reply(op, 500, exc, <<>>)

NotFound_as_form(op) == Reply(op, 200, "ENTRY_FORM", [error |-> None])

(* get_or_404 finding no row *)
NotFound(op) == Reply(op, 404, "Not Found", <<>>)

GradeIds == {g.id : g \in grades}

MaxOf(S) == CHOOSE m \in S : \A x \in S : x <= m

(* Grade.query.order_by(Grade.id.desc()).all() over a set of rows *)
RECURSIVE order_by_id_desc(_)
order_by_id_desc(rows) ==
    IF rows = {} THEN <<>>
    ELSE LET top == CHOOSE g \in rows : \A h \in rows : h.id <= g.id
         IN  <<top>> \o order_by_id_desc(rows \ {top})

(* The primary key the store gives a new grades row.  SQLite's INTEGER     *)
(* PRIMARY KEY takes one more than the largest key in the table;           *)
(* PostgreSQL's SERIAL takes the next value of a sequence.                 *)
next_grade_id ==
    IF backend = "sqlite" THEN (IF grades = {} THEN 1 ELSE MaxOf(GradeIds) + 1)
    ELSE grade_seq + 1

Init ==
    /\ backend \in {"sqlite", "postgresql"}
    /\ links = <<>>
    /\ students = <<>>
    /\ grades = {}
    /\ grade_seq = 0
    /\ session = [is_admin |-> FALSE]
    /\ clock = 0
    /\ workers = [w \in Workers |-> Idle]
    /\ response = Reply("none", 0, "none", <<>>)
    /\ deleted_ids = {}

-----------------------------------------------------------------------------
(* Auth routes *)

login_post_nonempty(password) ==
    /\ IF password # <<>>
       THEN /\ session' = [is_admin |-> TRUE]
            /\ response' = Reply("login_post", 302, "index", <<>>)
       ELSE /\ session' = session
            /\ response' = Reply("login_post", 200, "LOGIN_PAGE", "Wrong password")
    /\ UNCHANGED <<backend, deleted_ids, links, students, grades, grade_seq, clock, workers>>

login_post(password) ==
    /\ IF password = ADMIN_PASSWORD
       THEN /\ session' = [is_admin |-> TRUE]
            /\ response' = Reply("login_post", 302, "index", <<>>)
       ELSE /\ session' = session
            /\ response' = Reply("login_post", 200, "LOGIN_PAGE", "Wrong password")
    /\ UNCHANGED <<backend, deleted_ids, links, students, grades, grade_seq, clock, workers>>

logout ==
    /\ session' = [is_admin |-> FALSE]
    /\ response' = Reply("logout", 302, "login_page", <<>>)
    /\ UNCHANGED <<backend, deleted_ids, links, students, grades, grade_seq, clock, workers>>

-----------------------------------------------------------------------------
(* Main routes *)

index ==
    /\ response' = IF ~is_admin THEN require_admin("index")
                   ELSE Reply("index", 200, "ADMIN_PAGE", DOMAIN links)
    /\ UNCHANGED <<backend, deleted_ids, links, students, grades, grade_seq, session, clock, workers>>

create_link_merge(form, token, now) ==
    /\ now >= clock
    /\ IF ~is_admin
       THEN /\ response' = require_admin("create_link")
            /\ UNCHANGED <<links, clock>>
       ELSE /\ clock' = now
            /\ links' = [t \in DOMAIN links \cup {token} |->
                            IF t = token
                            THEN [token |-> token,
                                  teacher_name |-> strip(form.teacher_name),
                                  group_name |-> strip(form.group_name),
                                  created_at |-> now]
                            ELSE links[t]]
            /\ response' = Reply("create_link", 302, "index", <<>>)
    /\ UNCHANGED <<backend, deleted_ids, students, grades, grade_seq, session, workers>>

create_link_replace(form, token, now) ==
    /\ now >= clock
    /\ IF ~is_admin
       THEN /\ response' = require_admin("create_link")
            /\ UNCHANGED <<links, clock>>
       ELSE /\ clock' = now
            /\ links' = [t \in {token} |->
                            [token |-> token,
                             teacher_name |-> strip(form.teacher_name),
                             group_name |-> strip(form.group_name),
                             created_at |-> now]]
            /\ response' = Reply("create_link", 302, "index", <<>>)
    /\ UNCHANGED <<backend, deleted_ids, students, grades, grade_seq, session, workers>>

(* form: [teacher_name, group_name]; token: what secrets.token_urlsafe(16)  *)
(* returns; now: what utcnow() returns.                                    *)
create_link(form, token, now) ==
    /\ now >= clock
    /\ IF ~is_admin
       THEN /\ response' = require_admin("create_link")
            /\ UNCHANGED <<links, clock>>
       ELSE /\ clock' = now
            /\ IF token \in DOMAIN links
               THEN \* primary key links.token: the INSERT fails at commit
                    /\ response' = InternalServerError("create_link", "IntegrityError")
                    /\ UNCHANGED links
               ELSE /\ links' = [t \in DOMAIN links \cup {token} |->
                                    IF t = token
                                    THEN [token |-> token,
                                          teacher_name |-> strip(form.teacher_name),
                                          group_name |-> strip(form.group_name),
                                          created_at |-> now]
                                    ELSE links[t]]
                    /\ response' = Reply("create_link", 302, "index", <<>>)
    /\ UNCHANGED <<backend, deleted_ids, students, grades, grade_seq, session, workers>>

(* One row of the uploaded file, as csv.DictReader yields it. *)
student_of(row, now) ==
    [student_id |-> strip(row.student_id),
     student_name |-> strip(row.student_name),
     level |-> or_none(strip(row.level)),
     group_name |-> or_none(strip(row.group_name)),
     period |-> or_none(strip(row.period)),
     created_at |-> now]

is_imported_with_id(row) == strip(row.student_id) # <<>>

is_imported(row) == strip(row.student_id) # <<>> /\ strip(row.student_name) # <<>>

(* file: the sequence of rows of the upload; has_file: request.files has it *)
import_students(has_file, file, now) ==
    /\ now >= clock
    /\ IF ~is_admin
       THEN /\ response' = require_admin("import_students")
            /\ UNCHANGED <<students, clock>>
       ELSE IF ~has_file
       THEN /\ response' = Reply("import_students", 200, "No file uploaded", <<>>)
            /\ UNCHANGED <<students, clock>>
       ELSE LET kept == SelectSeq(file, is_imported)
                added == [i \in 1..Len(kept) |-> student_of(kept[i], now)]
            IN  /\ clock' = now
                /\ students' = students \o added
                /\ response' = Reply("import_students", 200, "Imported", Len(added))
    /\ UNCHANGED <<backend, deleted_ids, links, grades, grade_seq, session, workers>>

(* ---- SQL text matching ---- *)

ascii_uppercase ==
    <<"A","B","C","D","E","F","G","H","I","J","K","L","M",
      "N","O","P","Q","R","S","T","U","V","W","X","Y","Z">>
ascii_lowercase ==
    <<"a","b","c","d","e","f","g","h","i","j","k","l","m",
      "n","o","p","q","r","s","t","u","v","w","x","y","z">>

lower(c) ==
    IF \E i \in 1..26 : ascii_uppercase[i] = c
    THEN ascii_lowercase[CHOOSE i \in 1..26 : ascii_uppercase[i] = c]
    ELSE c

(* text ILIKE pattern: % matches any run of characters, _ any one character *)
RECURSIVE ilike(_, _)
ilike(text, pattern) ==
    IF pattern = <<>> THEN text = <<>>
    ELSE IF Head(pattern) = "%"
         THEN ilike(text, Tail(pattern)) \/ (text # <<>> /\ ilike(Tail(text), pattern))
    ELSE IF text = <<>> THEN FALSE
    ELSE /\ (Head(pattern) = "_" \/ lower(Head(pattern)) = lower(Head(text)))
         /\ ilike(Tail(text), Tail(pattern))

(* The filter report() and export_pdf() build from the query parameters.   *)
(* args: [teacher, group, period, search], as sent.                        *)
filter_matches(g, args) ==
    LET selected_teacher == strip(args.teacher)
        selected_group == strip(args.group)
        selected_period == strip(args.period)
        search == strip(args.search)
    IN  /\ selected_teacher = <<>> \/ g.teacher_name = selected_teacher
        /\ selected_group = <<>> \/ g.group_name = selected_group
        /\ selected_period = <<>> \/ g.period = selected_period
        /\ \/ search = <<>>
           \/ ilike(g.student_name, <<"%">> \o search \o <<"%">>)
           \/ ilike(g.student_id, <<"%">> \o search \o <<"%">>)

(* seq holds every element of S once *)
is_permutation(seq, S) ==
    Len(seq) = Cardinality(S) /\ \A x \in S : \E i \in 1..Len(seq) : seq[i] = x

Permutations_of(S) ==
    {f \in [1..Cardinality(S) -> S] : \A x \in S : \E i \in 1..Cardinality(S) : f[i] = x}

(* ORDER BY total_points DESC as the store evaluates it: rows with equal   *)
(* totals come in any order, and PostgreSQL ranks NaN above every number.  *)
db_total_ge(a, b) == a = NaN \/ (b # NaN /\ a >= b)

is_order_by_total_desc(seq) ==
    \A i \in 1..Len(seq) - 1 : db_total_ge(seq[i].total_points, seq[i + 1].total_points)

RECURSIVE sum_totals(_)
sum_totals(rows) ==
    IF rows = <<>> THEN 0 ELSE PyAdd(Head(rows).total_points, sum_totals(Tail(rows)))

count_passed(rows) ==
    Cardinality({i \in 1..Len(rows) : PyGe(rows[i].total_points, PASSING_SCORE)})

average_of_unguarded(rows) == [sum |-> sum_totals(rows), len |-> Len(rows)]

(* sum / len as an exact fraction, 0.0 for no rows; a fraction with len 0  *)
(* is the division that raises ZeroDivisionError                           *)
average_of(rows) ==
    IF rows # <<>> THEN [sum |-> sum_totals(rows), len |-> Len(rows)] ELSE [sum |-> 0, len |-> 1]

ids_of(rows) == [i \in 1..Len(rows) |-> rows[i].id]

students_page ==
    /\ response' = IF ~is_admin THEN require_admin("students_page")
                   ELSE Reply("students_page", 200, "STUDENTS_PAGE", Len(students))
    /\ UNCHANGED <<backend, deleted_ids, links, students, grades, grade_seq, session, clock, workers>>

(* ---- /entry/<token> ---- *)

entry_get_stamping(token) ==
    /\ IF token \notin DOMAIN links
       THEN response' = NotFound("entry GET") /\ UNCHANGED links
       ELSE /\ response' = Reply("entry GET", 200, "ENTRY_FORM", [error |-> None])
            /\ links' = [links EXCEPT ![token].created_at = @ + 1]
    /\ UNCHANGED <<backend, deleted_ids, students, grades, grade_seq, session, clock, workers>>

entry_get(token) ==
    /\ response' = IF token \notin DOMAIN links THEN NotFound("entry GET")
                   ELSE Reply("entry GET", 200, "ENTRY_FORM", [error |-> None])
    /\ UNCHANGED <<backend, deleted_ids, links, students, grades, grade_seq, session, clock, workers>>

total_of_without_questions(p, h, o, a, qv) == PyAdd(PyAdd(PyAdd(p, h), o), a)

total_of(p, h, o, a, qv) == PyAdd(PyAdd(PyAdd(PyAdd(p, h), o), a), qv)

(* POST, up to the Grade object it builds (lines 1290-1328): worker w has  *)
(* resolved the link, validated the form and read the clock.               *)
entry_post(w, token, form, now) ==
    /\ workers[w] = Idle
    /\ now >= clock
    /\ IF token \notin DOMAIN links
       THEN /\ response' = NotFound("entry POST")
            /\ UNCHANGED <<workers, clock>>
       ELSE LET link == links[token]
                p == safe_float(form.participation, "Participation", 0, 30)
                h == safe_float(form.homework, "Homework", 0, 10)
                o == safe_float(form.oral_test, "Oral Test", 0, 40)
                a == safe_float(form.attendance, "Attendance", 0, 10)
                qv == safe_float(form.questions, "Questions", 0, 10)
                checks == <<p, h, o, a, qv>>
                failed == {i \in 1..5 : ~checks[i].ok}
            IN  IF failed # {}
                THEN LET e == checks[CHOOSE i \in failed : \A j \in failed : i <= j]
                     IN  /\ response' = Reply("entry POST", 200, "ENTRY_FORM",
                                              [error |-> <<e.field, e.error>>])
                         /\ UNCHANGED <<workers, clock>>
                ELSE /\ clock' = now
                     /\ workers' = [workers EXCEPT ![w] =
                           [op |-> "entry",
                            row |-> [token |-> token,
                                     teacher_name |-> link.teacher_name,
                                     group_name |-> link.group_name,
                                     student_name |-> strip(form.student_name),
                                     student_id |-> strip(form.student_id),
                                     level |-> strip(form.level),
                                     period |-> IF strip(form.period) # <<>>
                                                THEN strip(form.period) ELSE DEFAULT_PERIOD,
                                     participation |-> p.n,
                                     homework |-> h.n,
                                     oral_test |-> o.n,
                                     attendance |-> a.n,
                                     questions |-> qv.n,
                                     total_points |-> total_of(p.n, h.n, o.n, a.n, qv.n),
                                     created_at |-> now,
                                     comments |-> strip(form.comments)]]]
                     /\ UNCHANGED response
    /\ UNCHANGED <<backend, deleted_ids, links, students, grades, grade_seq, session>>

float_columns(row) ==
    {row.participation, row.homework, row.oral_test, row.attendance, row.questions,
     row.total_points}

with_id(row, id) == [f \in DOMAIN row \cup {"id"} |-> IF f = "id" THEN id ELSE row[f]]

entry_commit_upsert(w) ==
    /\ workers[w].op = "entry"
    /\ LET row == workers[w].row
           earlier == {g \in grades : g.student_id = row.student_id /\ g.period = row.period}
       IN  IF backend = "sqlite" /\ NaN \in float_columns(row)
           THEN /\ response' = InternalServerError("entry POST", "IntegrityError")
                /\ UNCHANGED <<grades, grade_seq>>
           ELSE /\ grades' = (grades \ earlier) \cup {with_id(row, next_grade_id)}
                /\ grade_seq' = IF backend = "postgresql" THEN grade_seq + 1 ELSE grade_seq
                /\ response' = Reply("entry POST", 200, "SUCCESS_PAGE",
                                     [student |-> row.student_name,
                                      sid |-> row.student_id,
                                      period |-> row.period,
                                      total |-> row.total_points,
                                      status |-> pass_status(row.total_points)])
    /\ workers' = [workers EXCEPT ![w] = Idle]
    /\ UNCHANGED <<backend, deleted_ids, links, students, session, clock>>

entry_commit_locked(w) ==
    /\ workers[w].op = "entry"
    /\ LET row == workers[w].row
       IN  IF \E v \in Workers \ {w} : workers[v].op = "entry"
           THEN /\ response' = InternalServerError("entry POST", "OperationalError")
                /\ UNCHANGED <<grades, grade_seq>>
           ELSE /\ grades' = grades \cup {with_id(row, next_grade_id)}
                /\ grade_seq' = IF backend = "postgresql" THEN grade_seq + 1 ELSE grade_seq
                /\ response' = Reply("entry POST", 200, "SUCCESS_PAGE",
                                     [student |-> row.student_name,
                                      sid |-> row.student_id,
                                      period |-> row.period,
                                      total |-> row.total_points,
                                      status |-> pass_status(row.total_points)])
    /\ workers' = [workers EXCEPT ![w] = Idle]
    /\ UNCHANGED <<backend, deleted_ids, links, students, session, clock>>

(* POST, db.session.commit() and the answer (lines 1329-1341).  SQLite     *)
(* binds a NaN as NULL, which the NOT NULL float columns refuse.           *)
entry_commit(w) ==
    /\ workers[w].op = "entry"
    /\ LET row == workers[w].row
       IN  IF backend = "sqlite" /\ NaN \in float_columns(row)
           THEN /\ response' = InternalServerError("entry POST", "IntegrityError")
                /\ UNCHANGED <<grades, grade_seq>>
           ELSE /\ grades' = grades \cup {with_id(row, next_grade_id)}
                /\ grade_seq' = IF backend = "postgresql" THEN grade_seq + 1 ELSE grade_seq
                /\ response' = Reply("entry POST", 200, "SUCCESS_PAGE",
                                     [student |-> row.student_name,
                                      sid |-> row.student_id,
                                      period |-> row.period,
                                      total |-> row.total_points,
                                      status |-> pass_status(row.total_points)])
    /\ workers' = [workers EXCEPT ![w] = Idle]
    /\ UNCHANGED <<backend, deleted_ids, links, students, session, clock>>

(* ---- risk rules ---- *)

student_ids_of(base_rows) == {base_rows[i].student_id : i \in 1..Len(base_rows)}

(* history[sid]: the student's rows, in the order base_rows has them *)
history_of(base_rows, sid) == LET mine(r) == r.student_id = sid IN SelectSeq(base_rows, mine)

(* recs = sorted(recs, key=lambda x: x.created_at) *)
recs_of(base_rows, sid) ==
    LET recs == history_of(base_rows, sid)
    IN  sorted(recs, [i \in 1..Len(recs) |-> recs[i].created_at])

latest_of(base_rows, sid) == LET recs == recs_of(base_rows, sid) IN recs[Len(recs)]

is_at_risk_at_cutoff(recs) ==
    LET latest == recs[Len(recs)]
    IN  \/ ~PyGt(latest.total_points, RISK_LOW_SCORE)
        \/ /\ Len(recs) >= 2
           /\ PyGt(PySub(recs[Len(recs) - 1].total_points, latest.total_points),
                   RISK_DROP_POINTS)

is_at_risk_at_drop(recs) ==
    LET latest == recs[Len(recs)]
    IN  \/ PyLt(latest.total_points, RISK_LOW_SCORE)
        \/ /\ Len(recs) >= 2
           /\ PyGe(PySub(recs[Len(recs) - 1].total_points, latest.total_points),
                   RISK_DROP_POINTS)

is_at_risk_from_first(recs) ==
    LET latest == recs[Len(recs)]
    IN  \/ PyLt(latest.total_points, RISK_LOW_SCORE)
        \/ /\ Len(recs) >= 2
           /\ PyGt(PySub(recs[1].total_points, latest.total_points), RISK_DROP_POINTS)

is_at_risk(recs) ==
    LET latest == recs[Len(recs)]
    IN  \/ PyLt(latest.total_points, RISK_LOW_SCORE)
        \/ /\ Len(recs) >= 2
           /\ PyGt(PySub(recs[Len(recs) - 1].total_points, latest.total_points),
                   RISK_DROP_POINTS)

compute_risk_ids(base_rows) ==
    {sid \in student_ids_of(base_rows) : is_at_risk(recs_of(base_rows, sid))}

(* ---- admin views of the grades ---- *)

report(args) ==
    /\ response' =
         IF ~is_admin THEN require_admin("report")
         ELSE LET rows == order_by_id_desc({g \in grades : filter_matches(g, args)})
                  average == average_of(rows)
                  passed_count == count_passed(rows)
              IN  IF average.len = 0
                  THEN InternalServerError("report", "ZeroDivisionError")
                  ELSE Reply("report", 200, "REPORT_PAGE",
                             [rows |-> ids_of(rows),
                              selected_teacher |-> strip(args.teacher),
                              selected_group |-> strip(args.group),
                              selected_period |-> strip(args.period),
                              selected_search |-> strip(args.search),
                              average |-> average,
                              total_records |-> Len(rows),
                              passed_count |-> passed_count,
                              failed_count |-> Len(rows) - passed_count])
    /\ UNCHANGED <<backend, deleted_ids, links, students, grades, grade_seq, session, clock, workers>>

(* POST /delete/<id>, up to the row it looks up (lines 1417-1421) *)
delete_record(w, grade_id) ==
    /\ workers[w] = Idle
    /\ IF ~is_admin
       THEN /\ response' = require_admin("delete_record")
            /\ UNCHANGED workers
       ELSE IF grade_id \notin GradeIds
       THEN /\ response' = NotFound("delete_record")
            /\ UNCHANGED workers
       ELSE /\ workers' = [workers EXCEPT ![w] =
                           [op |-> "delete",
                            record |-> CHOOSE g \in grades : g.id = grade_id]]
            /\ UNCHANGED response
    /\ UNCHANGED <<backend, deleted_ids, links, students, grades, grade_seq, session, clock>>

delete_commit_stale_error(w) ==
    /\ workers[w].op = "delete"
    /\ LET matched == {g \in grades : g.id = workers[w].record.id}
       IN  /\ grades' = grades \ matched
           /\ deleted_ids' = deleted_ids \cup {g.id : g \in matched}
           /\ response' = IF matched = {}
                          THEN InternalServerError("delete_record", "StaleDataError")
                          ELSE Reply("delete_record", 302, "referrer or report", <<>>)
    /\ workers' = [workers EXCEPT ![w] = Idle]
    /\ UNCHANGED <<backend, links, students, grade_seq, session, clock>>

(* db.session.delete(record); db.session.commit(): the unit of work emits  *)
(* DELETE FROM grades WHERE id = <record.id>; a statement that matches no  *)
(* row only warns (the mapper has no version_id_col), and the redirect     *)
(* follows all the same.                                                   *)
delete_commit(w) ==
    /\ workers[w].op = "delete"
    /\ LET matched == {g \in grades : g.id = workers[w].record.id}
       IN  /\ grades' = grades \ matched
           /\ deleted_ids' = deleted_ids \cup {g.id : g \in matched}
    /\ response' = Reply("delete_record", 302, "referrer or report", <<>>)
    /\ workers' = [workers EXCEPT ![w] = Idle]
    /\ UNCHANGED <<backend, links, students, grade_seq, session, clock>>

student_history(student_id) ==
    /\ response' =
         IF ~is_admin THEN require_admin("student_history")
         ELSE Reply("student_history", 200, "STUDENT_HISTORY_PAGE",
                    ids_of(order_by_id_desc({g \in grades : g.student_id = student_id})))
    /\ UNCHANGED <<backend, deleted_ids, links, students, grades, grade_seq, session, clock, workers>>

(* The row dashboard() shows for a flagged student:                        *)
(* filter(student_id == sid).order_by(Grade.id.desc()).first()             *)
first_by_id_desc(sid) ==
    LET mine == {g \in grades : g.student_id = sid}
    IN  CHOOSE g \in mine : \A h \in mine : h.id <= g.id

(* at_risk, given the order in which the set risk_ids is iterated *)
at_risk_of(iteration) ==
    LET found == [i \in 1..Len(iteration) |-> first_by_id_desc(iteration[i])]
    IN  sorted(found, [i \in 1..Len(found) |-> found[i].total_points])

(* .limit(5) of top5 and latest5 *)
Limit == 5

limit(rows, n) == SubSeq(rows, 1, IF Len(rows) < n THEN Len(rows) ELSE n)

(* int(round(x)) for x = (passed_count / total_records) * 100: the nearest *)
(* integer, the even one of the two when x lies halfway.                   *)
round_percent(passed_count, total_records) ==
    LET twice == 200 * passed_count
        down == twice \div (2 * total_records)
        rest == twice % (2 * total_records)
    IN  IF rest < total_records THEN down
        ELSE IF rest > total_records THEN down + 1
        ELSE IF down % 2 = 0 THEN down ELSE down + 1

pass_ratio_of(passed_count, total_records) ==
    IF total_records # 0 THEN round_percent(passed_count, total_records) ELSE 0

(* top5 as the first rows of ranked, the order in which the store returns  *)
(* ORDER BY total_points DESC *)
top5_lowest(ranked) == limit([i \in 1..Len(ranked) |-> ranked[Len(ranked) + 1 - i]], Limit)

top5_of(ranked) == limit(ranked, Limit)

latest5_oldest(rows) == limit([i \in 1..Len(rows) |-> rows[Len(rows) + 1 - i]], Limit)

latest5_of(rows) == limit(rows, Limit)

(* iteration: the order in which the set risk_ids is iterated; ranked: the *)
(* rows as Grade.query.order_by(Grade.total_points.desc()) yields them     *)
dashboard(iteration, ranked) ==
    /\ IF ~is_admin
       THEN response' = require_admin("dashboard")
       ELSE LET rows == order_by_id_desc(grades)
                total_records == Len(rows)
                average == average_of(rows)
                passed_count == count_passed(rows)
                risk_ids == compute_risk_ids(rows)
            IN  /\ iteration \in Permutations_of(risk_ids)
                /\ is_permutation(ranked, grades)
                /\ is_order_by_total_desc(ranked)
                /\ response' =
                     IF average.len = 0
                     THEN InternalServerError("dashboard", "ZeroDivisionError")
                     ELSE Reply("dashboard", 200, "DASHBOARD_PAGE",
                        [total_records |-> total_records,
                         average |-> average,
                         passed |-> passed_count,
                         failed |-> total_records - passed_count,
                         teachers |-> Cardinality({g.teacher_name : g \in grades}),
                         groups |-> Cardinality({g.group_name : g \in grades}),
                         top5 |-> top5_of(ranked),
                         latest5 |-> latest5_of(rows),
                         risk_ids |-> risk_ids,
                         at_risk |-> at_risk_of(iteration),
                         pass_ratio |-> pass_ratio_of(passed_count, total_records)])
    /\ UNCHANGED <<backend, deleted_ids, links, students, grades, grade_seq, session, clock, workers>>

bulletin(grade_id) ==
    /\ response' =
         IF ~is_admin THEN require_admin("bulletin")
         ELSE IF grade_id \notin GradeIds THEN NotFound("bulletin")
         ELSE LET g == CHOOSE r \in grades : r.id = grade_id
              IN  Reply("bulletin", 200, "application/pdf",
                        [id |-> g.id, status |-> pass_status(g.total_points)])
    /\ UNCHANGED <<backend, deleted_ids, links, students, grades, grade_seq, session, clock, workers>>

(* The lines of the table of the PDF: for i, r in enumerate(rows, start=1) *)
table_of(rows) ==
    [i \in 1..Len(rows) |->
        [rank |-> i, id |-> rows[i].id, total |-> rows[i].total_points,
         status |-> pass_status(rows[i].total_points)]]

export_pdf_unfiltered(args, ranked) ==
    /\ IF ~is_admin
       THEN response' = require_admin("export_pdf")
       ELSE /\ response' = Reply("export_pdf", 200, "application/pdf",
                                 table_of(CHOOSE all \in Permutations_of(grades) :
                                             is_order_by_total_desc(all)))
    /\ UNCHANGED <<backend, deleted_ids, links, students, grades, grade_seq, session, clock, workers>>

(* ranked: the rows as q.order_by(Grade.total_points.desc()).all() yields them *)
export_pdf(args, ranked) ==
    /\ IF ~is_admin
       THEN response' = require_admin("export_pdf")
       ELSE /\ is_permutation(ranked, {g \in grades : filter_matches(g, args)})
            /\ is_order_by_total_desc(ranked)
            /\ response' = Reply("export_pdf", 200, "application/pdf", table_of(ranked))
    /\ UNCHANGED <<backend, deleted_ids, links, students, grades, grade_seq, session, clock, workers>>

-----------------------------------------------------------------------------
(* Requests the environment sends *)

WRONG_PASSWORD == <<"n","c","2","6">>

Tokens == {"t1", "t2"}

MsA == [teacher_name |-> <<"M","s"," ","A">>, group_name |-> <<"G","1"," ">>]
MrB == [teacher_name |-> <<"M","r"," ","B">>, group_name |-> <<"G","2">>]

StudentFiles ==
    {<<[student_id |-> <<"s","1">>, student_name |-> <<"A","n","a">>, level |-> <<"B","1">>,
        group_name |-> <<"G","1">>, period |-> <<>>],
       [student_id |-> <<" ">>, student_name |-> <<"B","o","b">>, level |-> <<>>,
        group_name |-> <<>>, period |-> <<>>]>>}

(* The scenario of the specification: 28 + 9 + 35 + 10 + 8 = 90 *)
BaseForm ==
    [student_name |-> <<"A","n","a">>, student_id |-> <<"s","1">>, level |-> <<"B","1">>,
     period |-> <<>>, participation |-> <<"2","8">>, homework |-> <<"9">>,
     oral_test |-> <<"3","5">>, attendance |-> <<"1","0">>, questions |-> <<"8">>,
     comments |-> <<>>]

ComponentFields == {"participation", "homework", "oral_test", "attendance", "questions"}

with_field(form, field, text) == [form EXCEPT ![field] = text]

for_student(form, sid) == [form EXCEPT !.student_id = sid]

StudentIds == {<<"s","1">>, <<"s","2">>}

NanText == <<" ","n","a","n">>

(* Every component at its lower bound, and at its upper bound *)
ZeroForm ==
    [BaseForm EXCEPT !.participation = <<"0">>, !.homework = <<"0">>, !.oral_test = <<"0">>,
                     !.attendance = <<"-","0">>, !.questions = <<"0">>]
FullForm ==
    [BaseForm EXCEPT !.participation = <<"3","0">>, !.homework = <<"1","0">>,
                     !.oral_test = <<"4","0">>, !.attendance = <<"1","0">>,
                     !.questions = <<"1","0">>]

(* Text no component accepts: not a number, below 0, above every maximum, inf *)
BadTexts == {<<"a","b","c">>, <<"-","1">>, <<"4","1">>, <<"i","n","f">>}

(* Oral tests that put the total of BaseForm at 75 (the passing score), 74 and 60 *)
OralTests == {<<"2","0">>, <<"1","9">>, <<"5">>}

in_flight(op) == Cardinality({w \in Workers : workers[w].op = op})

(* The store has room for max_grades rows, and the sequence for as many values. *)
can_submit(max_grades) ==
    /\ Cardinality(grades) + in_flight("entry") < max_grades
    /\ backend = "postgresql" => grade_seq + in_flight("entry") < max_grades

Readings == {now \in clock..clock + 1 : now <= MaxClock}

RiskOrders == Permutations_of(compute_risk_ids(order_by_id_desc(grades)))

(* The orders in which ORDER BY total_points DESC can return the rows of S *)
RECURSIVE DescOrders(_)
DescOrders(S) ==
    IF S = {} THEN {<<>>}
    ELSE UNION {{<<g>> \o rest : rest \in DescOrders(S \ {g})} :
                  g \in {m \in S : \A h \in S : db_total_ge(m.total_points, h.total_points)}}

-----------------------------------------------------------------------------
(* Submissions through a teacher's link, with every kind of form *)

SubmitMaxGrades == 1

SubmitForms ==
    {BaseForm, ZeroForm, FullForm}
    \cup {with_field(BaseForm, "oral_test", o) : o \in OralTests}
    \cup {with_field(BaseForm, f, t) : f \in ComponentFields, t \in BadTexts}
    \cup {with_field(BaseForm, f, NanText) : f \in ComponentFields}
    \cup {with_field(with_field(BaseForm, "homework", <<"1","1">>), "questions", <<"x">>)}

NextSubmit ==
    \/ login_post(ADMIN_PASSWORD)
    \/ \E now \in Readings : create_link(MsA, "t1", now)
    \/ \E token \in {"t1", "unknown"} : entry_get(token)
    \/ \E form \in SubmitForms, now \in Readings :
          /\ can_submit(SubmitMaxGrades)
          /\ entry_post("w1", "t1", form, now)
    \/ \E form \in {BaseForm, with_field(BaseForm, "homework", <<"1","1">>)}, now \in Readings :
          entry_post("w1", "unknown", form, now)
    \/ entry_commit("w1")

SpecSubmit == Init /\ [][NextSubmit]_vars

-----------------------------------------------------------------------------
(* Properties of a submission *)

Bounds ==
    [participation |-> <<0, 30>>, homework |-> <<0, 10>>, oral_test |-> <<0, 40>>,
     attendance |-> <<0, 10>>, questions |-> <<0, 10>>]

(* v is a number of the closed range [lo, hi] *)
InClosed(v, lo, hi) == v # NaN /\ lo <= v /\ v <= hi

(* The text is a number that lies inside the bound of the field *)
TextInBound(form, f) ==
    float(form[f]).ok /\ InClosed(float(form[f]).n, Bounds[f][1], Bounds[f][2])

RowInBounds(row) == \A f \in ComponentFields : InClosed(row[f], Bounds[f][1], Bounds[f][2])

Finishes(w, op) == workers[w].op = op /\ workers'[w] = Idle

FormInBounds(form) == \A f \in ComponentFields : TextInBound(form, f)

SubmitFormsInBounds == {form \in SubmitForms : FormInBounds(form)}
SubmitFormsOutOfBounds == SubmitForms \ SubmitFormsInBounds

(* C1: a POST to a known token whose five components lie inside their      *)
(* bounds goes on to the commit, and the commit inserts exactly one row,   *)
(* whose total is the sum of its own five components and lies in 0..100.   *)
C1_ValidSubmissionStored ==
    [][/\ \A w \in Workers, form \in SubmitFormsInBounds, now \in Readings :
            ("t1" \in DOMAIN links /\ entry_post(w, "t1", form, now))
            => workers'[w].op = "entry"
       /\ \A w \in Workers :
            (Finishes(w, "entry") /\ RowInBounds(workers[w].row))
            => \E g \in grades' \ grades :
                  /\ grades' = grades \cup {g}
                  /\ \A f \in DOMAIN workers[w].row : g[f] = workers[w].row[f]
                  /\ g.total_points = g.participation + g.homework + g.oral_test
                                        + g.attendance + g.questions
                  /\ 0 <= g.total_points /\ g.total_points <= 100
                  /\ response'.page = "SUCCESS_PAGE"
      ]_vars

(* The scenario 28, 9, 35, 10, 8 has been stored with total 90 and answered PASSED. *)
C1_Witness ==
    /\ response.page = "SUCCESS_PAGE"
    /\ response.data.total = 90
    /\ response.data.status = "PASSED"
    /\ \E g \in grades :
          /\ <<g.participation, g.homework, g.oral_test, g.attendance, g.questions>>
                = <<28, 9, 35, 10, 8>>
          /\ g.total_points = 90

(* C2: a POST in which some component is unparseable or not inside its     *)
(* bound is answered with a validation error, and no row is inserted.      *)
C2_BadSubmissionRejected ==
    [][/\ \A w \in Workers, form \in SubmitFormsOutOfBounds, now \in Readings :
            ("t1" \in DOMAIN links /\ entry_post(w, "t1", form, now))
            => /\ response'.op = "entry POST"
               /\ response'.page = "ENTRY_FORM"
               /\ response'.data.error # None
               /\ workers' = workers
               /\ grades' = grades
       /\ \A w \in Workers :
            (Finishes(w, "entry") /\ ~RowInBounds(workers[w].row)) => grades' = grades
      ]_vars

(* C3: every stored component lies inside its closed range. *)
C3_StoredComponentsInRange == \A g \in grades : RowInBounds(g)

(* C4: GET or POST with a token that matches no link answers NotFound,     *)
(* inserts no row and starts no submission, whatever the form holds.       *)
C4_UnknownTokenNotFound ==
    [][\A token \in {"t1", "unknown"} :
          ( /\ token \notin DOMAIN links
            /\ \/ entry_get(token)
               \/ \E w \in Workers, form \in SubmitForms, now \in Readings :
                     entry_post(w, token, form, now) )
          => /\ response'.code = 404
             /\ grades' = grades
             /\ workers' = workers
      ]_vars

(* A POST was answered 404 although a link and a grade exist. *)
C4_Witness ==
    /\ response.op = "entry POST"
    /\ response.code = 404
    /\ links # <<>>
    /\ grades # {}

(* C6: the status a submission is answered with is PASSED exactly when the *)
(* total of the row just stored is at least the passing score.             *)
C6_StatusOfStoredTotal ==
    [][\A w \in Workers :
          (Finishes(w, "entry") /\ grades' # grades)
          => \E g \in grades' \ grades :
                /\ response'.data.total = g.total_points
                /\ response'.data.status \in {"PASSED", "FAILED"}
                /\ response'.data.status = "PASSED"
                      <=> (g.total_points # NaN /\ g.total_points >= 75)
      ]_vars

(* A stored total of exactly the passing score was answered PASSED. *)
C6_Witness ==
    /\ response.page = "SUCCESS_PAGE"
    /\ response.data.total = PASSING_SCORE
    /\ response.data.status = "PASSED"
    /\ \E g \in grades : g.total_points = PASSING_SCORE /\ g.oral_test = 20

-----------------------------------------------------------------------------
(* compute_risk_ids as a function of the rows it is given *)

MaxRiskRows == 3

RiskTotals == {65, 70, 78, 80, 81, 90, 95, NaN}

RiskRows ==
    {[student_id |-> <<"s","1">>, total_points |-> t, created_at |-> c] :
        t \in RiskTotals, c \in 1..3}
    \cup {[student_id |-> <<"s","2">>, total_points |-> 65, created_at |-> 1],
          [student_id |-> <<"s","2">>, total_points |-> 70, created_at |-> 2]}

RECURSIVE SeqsUpTo(_, _)
SeqsUpTo(S, n) ==
    IF n = 0 THEN {<<>>}
    ELSE LET shorter == SeqsUpTo(S, n - 1)
         IN  shorter \cup {Append(q, x) : q \in {r \in shorter : Len(r) = n - 1}, x \in S}

(* Worker w calls compute_risk_ids on the rows it holds. *)
risk_call(w) ==
    /\ workers[w].op = "compute_risk_ids"
    /\ response' = Reply("compute_risk_ids", 0, "set",
                         [base_rows |-> workers[w].base_rows,
                          risk_ids |-> compute_risk_ids(workers[w].base_rows)])
    /\ workers' = [workers EXCEPT ![w] = Idle]
    /\ UNCHANGED <<backend, deleted_ids, links, students, grades, grade_seq, session, clock>>

InitRisk ==
    /\ backend = "postgresql"
    /\ links = <<>>
    /\ students = <<>>
    /\ grades = {}
    /\ grade_seq = 0
    /\ session = [is_admin |-> FALSE]
    /\ clock = 0
    /\ \E base_rows \in SeqsUpTo(RiskRows, MaxRiskRows) :
          workers = [w \in Workers |->
                        IF w = "w1" THEN [op |-> "compute_risk_ids", base_rows |-> base_rows]
                        ELSE Idle]
    /\ response = Reply("none", 0, "none", <<>>)
    /\ deleted_ids = {}

NextRisk == risk_call("w1")

SpecRisk == InitRisk /\ [][NextRisk]_vars

(* The positions in rows of the records of student sid *)
RecordsOf(rows, sid) == {i \in 1..Len(rows) : rows[i].student_id = sid}

(* The records that can come last when those of M are put in ascending     *)
(* created_at order, and the ones that can come just before record l.      *)
CanBeLatest(rows, M) == {l \in M : \A j \in M : rows[j].created_at <= rows[l].created_at}
CanBePrevious(rows, M, l) ==
    {p \in M \ {l} : \A j \in M \ {l} : rows[j].created_at <= rows[p].created_at}

BelowCutoff(r) == r.total_points # NaN /\ r.total_points < 70
DropsMoreThanTen(prev, latest) ==
    /\ prev.total_points # NaN /\ latest.total_points # NaN
    /\ prev.total_points - latest.total_points > 10

Called == response.op = "compute_risk_ids"

(* C7: a student with one record is flagged exactly when its total is      *)
(* below 70, and a student whose latest record is below 70 is flagged      *)
(* whatever the earlier records are.                                       *)
C7_LowScoreRule ==
    Called =>
      LET rows == response.data.base_rows
          risk_ids == response.data.risk_ids
      IN  \A sid \in StudentIds :
            LET M == RecordsOf(rows, sid)
            IN  /\ Cardinality(M) = 1
                   => (sid \in risk_ids <=> \A i \in M : BelowCutoff(rows[i]))
                /\ (M # {} /\ \A l \in CanBeLatest(rows, M) : BelowCutoff(rows[l]))
                   => sid \in risk_ids

(* One record at 70 is not flagged and one record at 65 is, in one call. *)
C7_Witness ==
    /\ Called
    /\ response.data.base_rows =
          <<[student_id |-> <<"s","1">>, total_points |-> 70, created_at |-> 1],
            [student_id |-> <<"s","2">>, total_points |-> 65, created_at |-> 1]>>
    /\ response.data.risk_ids = {<<"s","2">>}

(* C8: a student with two records or more whose latest total is not below *)
(* 70 is flagged exactly when the total before it is more than 10 higher.  *)
C8_DropRule ==
    Called =>
      LET rows == response.data.base_rows
          risk_ids == response.data.risk_ids
      IN  \A sid \in StudentIds :
            LET M == RecordsOf(rows, sid)
                pairs == {<<l, p>> \in M \X M :
                            l \in CanBeLatest(rows, M) /\ p \in CanBePrevious(rows, M, l)}
            IN  Cardinality(M) >= 2 =>
                  /\ (\A lp \in pairs : /\ ~BelowCutoff(rows[lp[1]])
                                        /\ DropsMoreThanTen(rows[lp[2]], rows[lp[1]]))
                     => sid \in risk_ids
                  /\ (\A lp \in pairs : /\ ~BelowCutoff(rows[lp[1]])
                                        /\ ~DropsMoreThanTen(rows[lp[2]], rows[lp[1]]))
                     => sid \notin risk_ids

(* 90 then 78 is flagged, given with the later record first. *)
C8_Witness ==
    /\ Called
    /\ response.data.base_rows =
          <<[student_id |-> <<"s","1">>, total_points |-> 78, created_at |-> 2],
            [student_id |-> <<"s","1">>, total_points |-> 90, created_at |-> 1]>>
    /\ response.data.risk_ids = {<<"s","1">>}

-----------------------------------------------------------------------------
(* Concurrent submissions for two students, and the dashboard *)

DashMaxGrades == 3

S2 == <<"s","2">>

(* For s1: totals 90, 60 and nan.  For s2: total 60. *)
DashForms ==
    {BaseForm,
     with_field(BaseForm, "oral_test", <<"5">>),
     with_field(BaseForm, "questions", NanText),
     for_student(with_field(BaseForm, "oral_test", <<"5">>), S2)}

NextDash ==
    \/ login_post(ADMIN_PASSWORD)
    \/ \E now \in Readings : create_link(MsA, "t1", now)
    \/ \E w \in Workers, form \in DashForms, now \in Readings :
          /\ can_submit(DashMaxGrades)
          /\ entry_post(w, "t1", form, now)
    \/ \E w \in Workers : entry_commit(w)
    \/ \E iteration \in RiskOrders, ranked \in DescOrders(grades) : dashboard(iteration, ranked)

SpecDash == Init /\ [][NextDash]_vars

Dashboard == response.op = "dashboard" /\ response.code = 200

(* C9: the row the dashboard shows for a flagged student, the one with the *)
(* highest id, is the row compute_risk_ids took for the student's latest.  *)
C9_SurfacedIsLatest ==
    Dashboard =>
      \A i \in 1..Len(response.data.at_risk) :
         LET shown == response.data.at_risk[i]
         IN  shown = latest_of(order_by_id_desc(grades), shown.student_id)

(* a comes before b in ascending order; a nan may come last *)
Ascending(a, b) == b = NaN \/ (a # NaN /\ a <= b)

(* C10: the at-risk list holds one record for each flagged student, none   *)
(* for any other student, in ascending order of total_points.              *)
C10_AtRiskList ==
    Dashboard =>
      LET at_risk == response.data.at_risk
      IN  /\ response.data.risk_ids = compute_risk_ids(order_by_id_desc(grades))
          /\ {at_risk[i].student_id : i \in 1..Len(at_risk)} = response.data.risk_ids
          /\ Len(at_risk) = Cardinality(response.data.risk_ids)
          /\ \A i \in 1..Len(at_risk) : at_risk[i] \in grades
          /\ \A i \in 1..Len(at_risk) - 1 :
                Ascending(at_risk[i].total_points, at_risk[i + 1].total_points)

-----------------------------------------------------------------------------
(* The whole application: every route, one request at a time *)

MaxGrades == 1
MaxStudents == 1

NoFilter == [teacher |-> <<>>, group |-> <<>>, period |-> <<>>, search |-> <<>>]

(* The query strings of /report and /export_pdf: none, and a search for "AN" *)
ReportArgs == {NoFilter, [NoFilter EXCEPT !.search = <<"A","N">>]}

RankedOrders(args) == Permutations_of({g \in grades : filter_matches(g, args)})

AppForms == {BaseForm, with_field(BaseForm, "homework", <<"1","1">>)}

Next ==
    \/ \E password \in {ADMIN_PASSWORD, WRONG_PASSWORD} : login_post(password)
    \/ logout
    \/ index
    \/ \E now \in Readings : create_link(MsA, "t1", now)
    \/ \E has_file \in BOOLEAN, file \in StudentFiles, now \in Readings :
          /\ Len(students) < MaxStudents
          /\ import_students(has_file, file, now)
    \/ students_page
    \/ \E token \in Tokens : entry_get(token)
    \/ \E token \in Tokens, form \in AppForms, now \in Readings :
          /\ can_submit(MaxGrades)
          /\ entry_post("w1", token, form, now)
    \/ entry_commit("w1")
    \/ \E args \in ReportArgs : report(args)
    \/ \E grade_id \in 1..2 : delete_record("w1", grade_id)
    \/ delete_commit("w1")
    \/ \E student_id \in StudentIds : student_history(student_id)
    \/ \E iteration \in RiskOrders, ranked \in DescOrders(grades) : dashboard(iteration, ranked)
    \/ \E grade_id \in 1..2 : bulletin(grade_id)
    \/ \E args \in ReportArgs : \E ranked \in RankedOrders(args) : export_pdf(args, ranked)

Spec == Init /\ [][Next]_vars

(* The request is answered with the redirect to the login page, the tables *)
(* are as they were and no worker has taken anything up.                   *)
Refused(op) ==
    /\ response' = Reply(op, 302, "login_page", <<>>)
    /\ store' = store
    /\ workers' = workers

(* C5: each of the ten admin routes, called while the session has no       *)
(* is_admin, answers with the redirect to the login page and leaves the    *)
(* links, students and grades tables as they were.                         *)
C5_AdminRoutesRefused ==
    [][~session.is_admin =>
         /\ index => Refused("index")
         /\ (\E now \in Readings : create_link(MsA, "t1", now)) => Refused("create_link")
         /\ (\E has_file \in BOOLEAN, file \in StudentFiles, now \in Readings :
                import_students(has_file, file, now)) => Refused("import_students")
         /\ students_page => Refused("students_page")
         /\ (\E args \in ReportArgs : report(args)) => Refused("report")
         /\ (\E grade_id \in 1..2 : delete_record("w1", grade_id)) => Refused("delete_record")
         /\ (\E student_id \in StudentIds : student_history(student_id))
               => Refused("student_history")
         /\ (\E iteration \in RiskOrders, ranked \in DescOrders(grades) :
                dashboard(iteration, ranked)) => Refused("dashboard")
         /\ (\E grade_id \in 1..2 : bulletin(grade_id)) => Refused("bulletin")
         /\ (\E args \in ReportArgs : \E ranked \in RankedOrders(args) :
                export_pdf(args, ranked)) => Refused("export_pdf")
      ]_vars

(* After a logout, the delete of a stored grade was refused and the grade, *)
(* the link and the imported student are still there.                      *)
C5_Witness ==
    /\ ~session.is_admin
    /\ response = Reply("delete_record", 302, "login_page", <<>>)
    /\ \E g \in grades : g.id = 1
    /\ links # <<>>
    /\ students # <<>>

-----------------------------------------------------------------------------
(* Deletes by two workers, with submissions going on *)

DeleteMaxGrades == 2

DeleteForms == {BaseForm, with_field(BaseForm, "oral_test", <<"5">>)}

NextDelete ==
    \/ login_post(ADMIN_PASSWORD)
    \/ \E now \in {clock} : create_link(MsA, "t1", now)
    \/ \E file \in StudentFiles, now \in {clock} :
          /\ Len(students) < MaxStudents
          /\ import_students(TRUE, file, now)
    \/ \E form \in DeleteForms, now \in {clock} :
          /\ can_submit(DeleteMaxGrades)
          /\ entry_post("w1", "t1", form, now)
    \/ entry_commit("w1")
    \/ \E w \in Workers, grade_id \in 1..DeleteMaxGrades : delete_record(w, grade_id)
    \/ \E w \in Workers : delete_commit(w)

SpecDelete == Init /\ [][NextDelete]_vars

(* C11: a delete by an admin for the id of a stored row removes that row   *)
(* and nothing else from any table, and a later delete of an id that has   *)
(* been deleted answers NotFound and changes nothing.                      *)
C11_DeleteThenNotFound ==
    [][\A w \in Workers :
          /\ (Finishes(w, "delete") /\ workers[w].record \in grades)
             => /\ grades' = grades \ {workers[w].record}
                /\ links' = links /\ students' = students
                /\ response'.code = 302
          /\ \A grade_id \in deleted_ids :
                (session.is_admin /\ workers[w] = Idle /\ delete_record(w, grade_id))
                => /\ response' = Reply("delete_record", 404, "Not Found", <<>>)
                   /\ workers' = workers
                   /\ store' = store
      ]_vars

(* C12: a delete that was in flight ends with the redirect, never with a   *)
(* server error, also when another delete has removed its row meanwhile;   *)
(* its row is gone afterwards, and no row with another id has been removed.*)
C12_ConcurrentDeletes ==
    [][\A w \in Workers :
          Finishes(w, "delete")
          => /\ response' = Reply("delete_record", 302, "referrer or report", <<>>)
             /\ workers[w].record \notin grades'
             /\ grades' \subseteq grades
             /\ \A g \in grades \ grades' : g.id = workers[w].record.id
             /\ Cardinality(grades \ grades') <= 1
             /\ links' = links /\ students' = students
      ]_vars

(* Both workers looked the same row up, one has committed its delete and   *)
(* the other is still to commit.                                           *)
C12_Witness ==
    /\ response = Reply("delete_record", 302, "referrer or report", <<>>)
    /\ \E w \in Workers :
          /\ workers[w].op = "delete"
          /\ workers[w].record.id \in deleted_ids
          /\ workers[w].record \notin grades

(* C13: ids are unique, and a new row's id is greater than every id given  *)
(* before it, to the rows of the table and to the rows deleted from it.    *)
C13_IdsMonotonic ==
    [][/\ \A g, h \in grades' : g.id = h.id => g = h
       /\ \A w \in Workers :
            Finishes(w, "entry")
            => \A g \in grades' \ grades : \A id \in GradeIds \cup deleted_ids : g.id > id
      ]_vars

-----------------------------------------------------------------------------
(* The admin's session, links and student imports *)

MaxImports == 1

BlankTeacher == [teacher_name |-> <<" ">>, group_name |-> <<"G","1">>]
NoGroup == [teacher_name |-> <<"M","s"," ","A">>, group_name |-> <<>>]

LinkForms == {MsA, MrB, BlankTeacher, NoGroup}

StudentRow(sid, sname) ==
    [student_id |-> sid, student_name |-> sname, level |-> <<"B","1">>,
     group_name |-> <<>>, period |-> <<" ">>]

Ana == StudentRow(<<"s","1">>, <<" ","A","n","a">>)
Bob == StudentRow(<<"s","2">>, <<"B","o","b">>)
NoId == StudentRow(<<>>, <<"C","y">>)
BlankId == StudentRow(<<" "," ">>, <<"C","y">>)
NoName == StudentRow(<<"s","3">>, <<" ">>)

(* Uploads: no row; the three rows of the scenario, one without            *)
(* student_id; rows with a blank id and a blank name; the same row twice.  *)
ImportFiles ==
    {<<>>, <<Ana, NoId, Bob>>, <<BlankId, Ana, NoName>>, <<NoName>>, <<Ana, Ana>>}

NextAdmin ==
    \/ \E password \in {ADMIN_PASSWORD, WRONG_PASSWORD, <<>>} : login_post(password)
    \/ logout
    \/ index
    \/ \E form \in LinkForms, token \in Tokens, now \in Readings : create_link(form, token, now)
    \/ \E has_file \in BOOLEAN, file \in ImportFiles, now \in Readings :
          /\ Len(students) < MaxImports
          /\ import_students(has_file, file, now)
    \/ students_page

SpecAdmin == Init /\ [][NextAdmin]_vars

(* C14: every link of the store has a teacher_name and a group_name that   *)
(* are not empty.                                                          *)
C14_LinksHaveNames ==
    \A token \in DOMAIN links :
       links[token].teacher_name # <<>> /\ links[token].group_name # <<>>

-----------------------------------------------------------------------------
(* The dashboard and the report over a store of up to six grades *)

MaxTopRows == 6

TopTotals == {60, 90, NaN}

(* The row a submission of BaseForm through link t1 leaves, with the oral  *)
(* test (5 or 35) or the questions (nan) that give it the total.           *)
GradeRow(id, total) ==
    [id |-> id, token |-> "t1", teacher_name |-> strip(MsA.teacher_name),
     group_name |-> strip(MsA.group_name), student_name |-> <<"A","n","a">>,
     student_id |-> IF id % 2 = 1 THEN <<"s","1">> ELSE S2, level |-> <<"B","1">>,
     period |-> DEFAULT_PERIOD, participation |-> 28, homework |-> 9,
     oral_test |-> IF total = 60 THEN 5 ELSE 35, attendance |-> 10,
     questions |-> IF total = NaN THEN NaN ELSE 8,
     total_points |-> total, created_at |-> 0, comments |-> <<>>]

InitTop ==
    /\ backend \in {"sqlite", "postgresql"}
    /\ links = [t \in {"t1"} |-> [token |-> "t1", teacher_name |-> strip(MsA.teacher_name),
                                  group_name |-> strip(MsA.group_name), created_at |-> 0]]
    /\ students = <<>>
    /\ \E n \in 0..MaxTopRows : \E totals \in [1..n -> TopTotals] :
          /\ \A i \in 1..n : totals[i] = NaN => (backend = "postgresql" /\ i = 2)
          /\ grades = {GradeRow(i, totals[i]) : i \in 1..n}
          /\ grade_seq = IF backend = "postgresql" THEN n ELSE 0
    /\ session = [is_admin |-> TRUE]
    /\ clock = 0
    /\ workers = [w \in Workers |-> Idle]
    /\ response = Reply("none", 0, "none", <<>>)
    /\ deleted_ids = {}

(* No filter, and a teacher who has no rows *)
TopArgs == {NoFilter, [NoFilter EXCEPT !.teacher = strip(MrB.teacher_name)]}

(* One request to each store: the admin opens the dashboard or the report. *)
NextTop ==
    \/ /\ response.op = "none"
       /\ \E iteration \in RiskOrders, ranked \in DescOrders(grades) :
             dashboard(iteration, ranked)
    \/ /\ response.op = "none"
       /\ \E args \in TopArgs : report(args)

SpecTop == InitTop /\ [][NextTop]_vars

(* the value 0.0, from a division that did not raise *)
IsZero(average) == average.sum = 0 /\ average.len # 0

(* C15: over no rows (an empty store, or a filter that matches nothing)    *)
(* the report and the dashboard answer their page with average 0, passed   *)
(* 0, failed 0 and pass_ratio 0, not a division error.                     *)
C15_EmptyAggregates ==
    [][/\ \A args \in TopArgs :
            ( /\ session.is_admin
              /\ \A g \in grades : ~filter_matches(g, args)
              /\ report(args) )
            => /\ response'.code = 200
               /\ IsZero(response'.data.average)
               /\ response'.data.passed_count = 0
               /\ response'.data.failed_count = 0
       /\ ( /\ session.is_admin
            /\ grades = {}
            /\ \E iteration \in RiskOrders, ranked \in DescOrders(grades) :
                  dashboard(iteration, ranked) )
          => /\ response'.code = 200
             /\ IsZero(response'.data.average)
             /\ response'.data.passed = 0
             /\ response'.data.failed = 0
             /\ response'.data.pass_ratio = 0
      ]_vars

(* The report of a teacher without rows, over a store that has rows. *)
C15_Witness ==
    /\ grades # {}
    /\ response.op = "report"
    /\ response.code = 200
    /\ response.data.total_records = 0
    /\ IsZero(response.data.average)

Range(seq) == {seq[i] : i \in 1..Len(seq)}

Min(a, b) == IF a < b THEN a ELSE b

(* C19: top5 holds min(5, n) rows in descending order of total_points and  *)
(* no row left out of it has a total greater than a row in it; latest5     *)
(* holds the min(5, n) rows of the highest ids, the highest id first.      *)
C19_TopAndLatest ==
    Dashboard =>
      LET top5 == response.data.top5
          latest5 == response.data.latest5
          n == Cardinality(grades)
      IN  /\ Len(top5) = Min(5, n)
          /\ Cardinality(Range(top5)) = Len(top5)
          /\ Range(top5) \subseteq grades
          /\ \A i, j \in 1..Len(top5) :
                i < j => ~PyLt(top5[i].total_points, top5[j].total_points)
          /\ \A out \in grades \ Range(top5) : \A in \in Range(top5) :
                ~PyGt(out.total_points, in.total_points)
          /\ Len(latest5) = Min(5, n)
          /\ Range(latest5) \subseteq grades
          /\ \A i, j \in 1..Len(latest5) : i < j => latest5[i].id > latest5[j].id
          /\ \A out \in grades \ Range(latest5) : \A in \in Range(latest5) : out.id < in.id

(* Six rows, of which the only one with total 60 is the newest: it is left *)
(* out of top5 and comes first in latest5.                                 *)
C19_Witness ==
    /\ Dashboard
    /\ Cardinality(grades) = 6
    /\ Len(response.data.top5) = 5
    /\ \A i \in 1..5 : response.data.top5[i].total_points = 90
    /\ response.data.latest5[1].id = 6
    /\ response.data.latest5[1].total_points = 60
    /\ response.data.latest5[5].id = 2

-----------------------------------------------------------------------------
(* The report over stores with two teachers, and every kind of filter *)

MaxReportRows == 3

TwoLinks ==
    [t \in Tokens |->
        LET form == IF t = "t1" THEN MsA ELSE MrB
        IN  [token |-> t, teacher_name |-> strip(form.teacher_name),
             group_name |-> strip(form.group_name), created_at |-> 0]]

Period25 == <<"2","5">>

(* The row of a submission through link token, for Ana (s1) or Bob (s2) *)
ReportRow(token, period, sid) ==
    [GradeRow(0, 90) EXCEPT !.token = token,
                            !.teacher_name = TwoLinks[token].teacher_name,
                            !.group_name = TwoLinks[token].group_name,
                            !.period = period,
                            !.student_id = sid,
                            !.student_name = IF sid = S2 THEN <<"B","o","b">>
                                             ELSE <<"A","n","a">>]

ReportRows ==
    <<ReportRow("t1", DEFAULT_PERIOD, <<"s","1">>), ReportRow("t1", Period25, S2),
      ReportRow("t2", DEFAULT_PERIOD, S2), ReportRow("t2", Period25, <<"s","1">>)>>

(* The store that holds the rows of the positions in chosen, in that order *)
StoreOf(chosen) ==
    {[ReportRows[i] EXCEPT !.id = Cardinality({j \in chosen : j <= i})] : i \in chosen}

InitReport ==
    /\ backend \in {"sqlite", "postgresql"}
    /\ links = TwoLinks
    /\ students = <<>>
    /\ \E chosen \in SUBSET (1..Len(ReportRows)) :
          /\ Cardinality(chosen) <= MaxReportRows
          /\ grades = StoreOf(chosen)
          /\ grade_seq = IF backend = "postgresql" THEN Cardinality(chosen) ELSE 0
    /\ session = [is_admin |-> TRUE]
    /\ clock = 0
    /\ workers = [w \in Workers |-> Idle]
    /\ response = Reply("none", 0, "none", <<>>)
    /\ deleted_ids = {}

Searches ==
    {<<>>, <<"A","N">>, <<"S","1">>, <<"b">>, <<"z","z">>, <<"_">>, <<"%">>, <<"a","_","a">>}

ReportRequests ==
    [teacher : {<<>>, <<"M","s"," ","A">>, <<"m","s"," ","a">>, <<"M","r"," ","B">>},
     group : {<<>>, <<"G","1">>, <<"G","2">>, <<"G","9">>},
     period : {<<>>, DEFAULT_PERIOD, Period25},
     search : Searches]

NextReport ==
    /\ response.op = "none"
    /\ \E args \in ReportRequests : report(args)

SpecReport == InitReport /\ [][NextReport]_vars

lower_text(text) == [i \in 1..Len(text) |-> lower(text[i])]

(* part occurs in text, letter case apart *)
IsSubstring(part, text) ==
    \E i \in 1..Len(text) - Len(part) + 1 :
       SubSeq(lower_text(text), i, i + Len(part) - 1) = lower_text(part)

Satisfies(g, args) ==
    /\ args.teacher = <<>> \/ g.teacher_name = args.teacher
    /\ args.group = <<>> \/ g.group_name = args.group
    /\ args.period = <<>> \/ g.period = args.period
    /\ \/ args.search = <<>>
       \/ IsSubstring(args.search, g.student_name)
       \/ IsSubstring(args.search, g.student_id)

(* C16: the report answers its page with the rows that satisfy every       *)
(* filter that is not empty, no others, whatever the filters are.          *)
C16_ReportRows ==
    [][\A args \in ReportRequests :
          (session.is_admin /\ report(args))
          => /\ response'.code = 200
             /\ Range(response'.data.rows) = {g.id : g \in {h \in grades : Satisfies(h, args)}}
             /\ Len(response'.data.rows) = Cardinality(Range(response'.data.rows))
      ]_vars

-----------------------------------------------------------------------------
(* Properties of the imports and of the session (SpecAdmin) *)

IsBlank(text) == \A i \in 1..Len(text) : text[i] = " "

HasIdAndName(row) == ~IsBlank(row.student_id) /\ ~IsBlank(row.student_name)

(* C17: an import adds one student for each row of the file that has a     *)
(* student_id and a student_name, in the order of the file, adds nothing   *)
(* for the other rows, and reports the number of students it added.        *)
C17_ImportCounts ==
    [][\A file \in ImportFiles, now \in Readings :
          (session.is_admin /\ import_students(TRUE, file, now))
          => LET kept == {i \in 1..Len(file) : HasIdAndName(file[i])}
             IN  /\ Len(students') = Len(students) + Cardinality(kept)
                 /\ SubSeq(students', 1, Len(students)) = students
                 /\ \A i \in kept :
                       LET s == students'[Len(students) + Cardinality({j \in kept : j <= i})]
                       IN  /\ s.student_id = strip(file[i].student_id)
                           /\ s.student_name = strip(file[i].student_name)
                 /\ response' = Reply("import_students", 200, "Imported", Cardinality(kept))
                 /\ links' = links /\ grades' = grades
      ]_vars

(* The three rows of the scenario gave two students, Ana and Bob. *)
C17_Witness ==
    /\ response = Reply("import_students", 200, "Imported", 2)
    /\ Len(students) = 2
    /\ students[1].student_name = <<"A","n","a">>
    /\ students[2].student_id = <<"s","2">>

(* C18: the admin flag goes from unset to set only in a login with the     *)
(* configured password; a login with another password leaves it unset and  *)
(* shows the login page again; a logout unsets it; and while it is unset   *)
(* the admin routes answer with the redirect to the login page.            *)
C18_AdminFlag ==
    [][/\ (~session.is_admin /\ session'.is_admin) => login_post(ADMIN_PASSWORD)
       /\ \A password \in {WRONG_PASSWORD, <<>>} :
             (~session.is_admin /\ login_post(password))
             => /\ ~session'.is_admin
                /\ response' = Reply("login_post", 200, "LOGIN_PAGE", "Wrong password")
       /\ login_post(ADMIN_PASSWORD) => session'.is_admin
       /\ logout => ~session'.is_admin
       /\ ~session.is_admin =>
             /\ index => Refused("index")
             /\ students_page => Refused("students_page")
             /\ (\E form \in LinkForms, token \in Tokens, now \in Readings :
                    create_link(form, token, now)) => Refused("create_link")
             /\ (\E has_file \in BOOLEAN, file \in ImportFiles, now \in Readings :
                    import_students(has_file, file, now)) => Refused("import_students")
      ]_vars

(* After a login, a link and a logout, the index was refused. *)
C18_Witness ==
    /\ ~session.is_admin
    /\ links # <<>>
    /\ response = Reply("index", 302, "login_page", <<>>)

-----------------------------------------------------------------------------
(* Submissions through the links of two teachers *)

LinkMaxGrades == 2

NextLinks ==
    \/ login_post(ADMIN_PASSWORD)
    \/ logout
    \/ \E form \in {MsA, MrB}, token \in Tokens, now \in Readings : create_link(form, token, now)
    \/ \E token \in Tokens, now \in Readings :
          /\ can_submit(LinkMaxGrades)
          /\ entry_post("w1", token, BaseForm, now)
    \/ entry_commit("w1")
    \/ \E grade_id \in 1..LinkMaxGrades : delete_record("w1", grade_id)
    \/ delete_commit("w1")

SpecLinks == Init /\ [][NextLinks]_vars

(* C20: each grade has the token of a link of the store, and the           *)
(* teacher_name and group_name of that link.                               *)
C20_GradesFollowLinks ==
    \A g \in grades :
       /\ g.token \in DOMAIN links
       /\ g.teacher_name = links[g.token].teacher_name
       /\ g.group_name = links[g.token].group_name

(* Grades stored through the links of two different teachers. *)
C20_Witness ==
    \E g, h \in grades :
       /\ g.token = "t1" /\ h.token = "t2"
       /\ g.teacher_name # h.teacher_name
       /\ g.group_name = links["t1"].group_name
       /\ h.teacher_name = links["t2"].teacher_name

-----------------------------------------------------------------------------
(* The routes that write links and grades: links, submissions and deletes *)

StoreMaxGrades == 2

(* 90 and 60 for Ana (s1) in the default period, and a homework of 11 *)
StoreForms ==
    {BaseForm, with_field(BaseForm, "oral_test", <<"5">>),
     with_field(BaseForm, "homework", <<"1","1">>)}

NextStore ==
    \/ login_post(ADMIN_PASSWORD)
    \/ logout
    \/ \E form \in {MsA, MrB}, token \in Tokens, now \in {clock} :
          create_link(form, token, now)
    \/ \E form \in StoreForms, now \in {clock} :
          /\ can_submit(StoreMaxGrades)
          /\ entry_post("w1", "t1", form, now)
    \/ entry_commit("w1")
    \/ \E w \in Workers, grade_id \in 1..StoreMaxGrades : delete_record(w, grade_id)
    \/ \E w \in Workers : delete_commit(w)

SpecStore == Init /\ [][NextStore]_vars

(* C21: a row of grades stays as it is, field by field, in every step but  *)
(* the commit of a delete that an admin requested for its id; a submission *)
(* whose components are in bounds adds one row under an id no row has,     *)
(* and leaves the rows the student already has for the period as they are. *)
C21_GradesImmutable ==
    [][/\ \A g \in grades :
            \/ g \in grades'
            \/ \E w \in Workers :
                  /\ Finishes(w, "delete")
                  /\ workers[w].record.id = g.id
                  /\ \A h \in grades' : h.id # g.id
       /\ \A w \in Workers :
            (Finishes(w, "entry") /\ RowInBounds(workers[w].row))
            => \E g \in grades' \ grades :
                  /\ grades' = grades \cup {g}
                  /\ g.id \notin GradeIds
                  /\ g.student_id = workers[w].row.student_id
                  /\ g.period = workers[w].row.period
                  /\ g.total_points = workers[w].row.total_points
      ]_vars

(* Ana has two rows for the same period, the earlier with 90 and the later *)
(* with 60.                                                                *)
C21_Witness ==
    /\ response.page = "SUCCESS_PAGE"
    /\ \E g, h \in grades :
          /\ g.id < h.id
          /\ g.student_id = h.student_id /\ g.period = h.period
          /\ g.total_points = 90 /\ h.total_points = 60

(* C22: every link stays in the table as it is, in every step; a           *)
(* create-link by an admin whose token no link has adds that one link,     *)
(* one whose token a link has adds none; nothing else changes the table.   *)
C22_LinksOnlyGrow ==
    [][/\ \A t \in DOMAIN links : t \in DOMAIN links' /\ links'[t] = links[t]
       /\ \A form \in {MsA, MrB}, token \in Tokens :
            (session.is_admin /\ create_link(form, token, clock))
            => IF token \notin DOMAIN links
               THEN /\ DOMAIN links' = DOMAIN links \cup {token}
                    /\ links'[token].token = token
                    /\ links'[token].teacher_name = strip(form.teacher_name)
                    /\ links'[token].group_name = strip(form.group_name)
                    /\ response' = Reply("create_link", 302, "index", <<>>)
               ELSE links' = links
       /\ links' # links
            => /\ session.is_admin
               /\ \E form \in {MsA, MrB}, token \in Tokens : create_link(form, token, clock)
      ]_vars

(* The second link was added next to the first, which a grade came through. *)
C22_Witness ==
    /\ response = Reply("create_link", 302, "index", <<>>)
    /\ DOMAIN links = Tokens
    /\ links["t1"].teacher_name # links["t2"].teacher_name
    /\ \E g \in grades : g.token = "t1"

-----------------------------------------------------------------------------
(* The routes that only read, each over every store of a few rows *)

OneStudent ==
    <<[student_id |-> <<"s","1">>, student_name |-> <<"A","n","a">>, level |-> <<"B","1">>,
       group_name |-> None, period |-> None, created_at |-> 0]>>

InitReads ==
    /\ backend \in {"sqlite", "postgresql"}
    /\ links \in {<<>>, TwoLinks}
    /\ students \in {<<>>, OneStudent}
    /\ \E chosen \in SUBSET (1..Len(ReportRows)) :
          /\ Cardinality(chosen) <= MaxReportRows
          /\ links = <<>> => chosen = {}
          /\ grades = StoreOf(chosen)
          /\ grade_seq = IF backend = "postgresql" THEN Cardinality(chosen) ELSE 0
    /\ session \in {[is_admin |-> FALSE], [is_admin |-> TRUE]}
    /\ clock = 0
    /\ workers = [w \in Workers |-> Idle]
    /\ response = Reply("none", 0, "none", <<>>)
    /\ deleted_ids = {}

ReadArgs ==
    {NoFilter,
     [NoFilter EXCEPT !.search = <<"A","N">>],
     [NoFilter EXCEPT !.teacher = <<"M","r"," ","B">>, !.period = Period25]}

FilteredOrders(args) == DescOrders({g \in grades : filter_matches(g, args)})

(* One request to each store *)
NextReads ==
    \/ /\ response.op = "none"
       /\ \E args \in ReadArgs : report(args)
    \/ /\ response.op = "none"
       /\ \E iteration \in RiskOrders, ranked \in DescOrders(grades) :
             dashboard(iteration, ranked)
    \/ /\ response.op = "none"
       /\ \E student_id \in StudentIds : student_history(student_id)
    \/ /\ response.op = "none"
       /\ students_page
    \/ /\ response.op = "none"
       /\ \E grade_id \in 1..MaxReportRows + 1 : bulletin(grade_id)
    \/ /\ response.op = "none"
       /\ \E args \in ReadArgs : \E ranked \in FilteredOrders(args) : export_pdf(args, ranked)
    \/ /\ response.op = "none"
       /\ \E token \in Tokens : entry_get(token)

SpecReads == InitReads /\ [][NextReads]_vars

(* C23: the report with any filters, the dashboard, the student history,   *)
(* the students list, the bulletin, the export and the GET of the entry    *)
(* form leave the three tables as they were, and start no write.           *)
C23_ReadsChangeNothing ==
    [][( \/ \E args \in ReadArgs : report(args)
         \/ \E iteration \in RiskOrders, ranked \in DescOrders(grades) :
               dashboard(iteration, ranked)
         \/ \E student_id \in StudentIds : student_history(student_id)
         \/ students_page
         \/ \E grade_id \in 1..MaxReportRows + 1 : bulletin(grade_id)
         \/ \E args \in ReadArgs : \E ranked \in FilteredOrders(args) : export_pdf(args, ranked)
         \/ \E token \in Tokens : entry_get(token) )
       => /\ links' = links /\ students' = students /\ grades' = grades
          /\ grade_seq' = grade_seq
          /\ workers' = workers
      ]_vars

(* The export of a filtered report was answered over a store that holds    *)
(* links, a student and grades.                                            *)
C23_Witness ==
    /\ response.op = "export_pdf" /\ response.code = 200
    /\ Len(response.data) = 1
    /\ Cardinality(grades) = 3
    /\ links # <<>>
    /\ students # <<>>

-----------------------------------------------------------------------------
(* Two teachers submitting at the same time, each through their own link *)

PairMaxGrades == 2

(* Ms A's link is t1 and Mr B's is t2; worker w1 serves her and w2 him. *)
FormFor(token) == IF token = "t1" THEN MsA ELSE MrB
TokenOf(w) == IF w = "w1" THEN "t1" ELSE "t2"

(* 90 for Ana (s1) and 60 for the student s2 *)
PairForms == {BaseForm, for_student(with_field(BaseForm, "oral_test", <<"5">>), S2)}

NextPair ==
    \/ login_post(ADMIN_PASSWORD)
    \/ \E token \in Tokens, now \in Readings : create_link(FormFor(token), token, now)
    \/ \E w \in Workers, form \in PairForms, now \in Readings :
          /\ can_submit(PairMaxGrades)
          /\ entry_post(w, TokenOf(w), form, now)
    \/ \E w \in Workers : entry_commit(w)

SpecPair == Init /\ [][NextPair]_vars

(* C24: a submission through a link is taken up also while another one is  *)
(* in flight; its commit can always be taken, and it stores the row as     *)
(* built, under an id no stored row has, with the teacher and group of its *)
(* own link, answers with the success page, and leaves the stored rows and *)
(* the other worker's submission as they were.                             *)
C24_IndependentInserts ==
    [][/\ \A w \in Workers, form \in PairForms, now \in Readings :
            (TokenOf(w) \in DOMAIN links /\ entry_post(w, TokenOf(w), form, now))
            => /\ workers'[w].op = "entry"
               /\ \A v \in Workers \ {w} : workers'[v] = workers[v]
       /\ \A w \in Workers : workers[w].op = "entry" => ENABLED entry_commit(w)
       /\ \A w \in Workers :
            Finishes(w, "entry")
            => /\ \E g \in grades' \ grades :
                     /\ grades' = grades \cup {g}
                     /\ g.id \notin GradeIds
                     /\ \A f \in DOMAIN workers[w].row : g[f] = workers[w].row[f]
                     /\ g.token = TokenOf(w)
                     /\ g.teacher_name = links[TokenOf(w)].teacher_name
                     /\ g.group_name = links[TokenOf(w)].group_name
               /\ response'.page = "SUCCESS_PAGE"
               /\ \A v \in Workers \ {w} : workers'[v] = workers[v]
       /\ \A g, h \in grades' : g.id = h.id => g = h
      ]_vars

(* Both rows are stored; the one submitted first through t1 was committed  *)
(* after the one submitted later through t2.                               *)
C24_Witness ==
    \E g, h \in grades :
       /\ g.token = "t1" /\ h.token = "t2"
       /\ g.created_at < h.created_at
       /\ g.id > h.id
       /\ g.teacher_name = <<"M","s"," ","A">> /\ h.teacher_name = <<"M","r"," ","B">>
       /\ g.group_name = <<"G","1">> /\ h.group_name = <<"G","2">>

-----------------------------------------------------------------------------
(* The report and then the export, over the same store *)

(* The rows of StoreOf(chosen), the second of them with an oral test of 5  *)
(* and so a total of 60                                                    *)
ExportStoreOf(chosen) ==
    {IF g.id = 2 THEN [g EXCEPT !.oral_test = 5, !.total_points = 60] ELSE g :
        g \in StoreOf(chosen)}

InitExport ==
    /\ backend \in {"sqlite", "postgresql"}
    /\ links = TwoLinks
    /\ students = <<>>
    /\ \E chosen \in SUBSET (1..Len(ReportRows)) :
          /\ Cardinality(chosen) <= MaxReportRows
          /\ grades = ExportStoreOf(chosen)
          /\ grade_seq = IF backend = "postgresql" THEN Cardinality(chosen) ELSE 0
    /\ session = [is_admin |-> TRUE]
    /\ clock = 0
    /\ workers = [w \in Workers |-> Idle]
    /\ response = Reply("none", 0, "none", <<>>)
    /\ deleted_ids = {}

ExportRequests ==
    {NoFilter,
     [NoFilter EXCEPT !.teacher = <<" ","M","s"," ","A"," ">>],
     [NoFilter EXCEPT !.teacher = <<"M","s"," ","A">>],
     [NoFilter EXCEPT !.group = <<"G","2">>],
     [NoFilter EXCEPT !.period = Period25],
     [NoFilter EXCEPT !.search = <<"A","N">>],
     [NoFilter EXCEPT !.search = <<"_","2">>],
     [NoFilter EXCEPT !.teacher = <<"M","r"," ","B">>, !.search = <<"b">>]}

(* The admin opens the report, and then asks for an export. *)
NextExport ==
    \/ /\ response.op = "none"
       /\ \E args \in ExportRequests : report(args)
    \/ /\ response.op = "report"
       /\ \E args \in ExportRequests : \E ranked \in FilteredOrders(args) :
             export_pdf(args, ranked)

SpecExport == InitExport /\ [][NextExport]_vars

(* args are the query parameters the page was answered for, surrounding    *)
(* blanks apart                                                            *)
SameQuery(args, page) ==
    /\ strip(args.teacher) = page.selected_teacher
    /\ strip(args.group) = page.selected_group
    /\ strip(args.period) = page.selected_period
    /\ strip(args.search) = page.selected_search

(* C25: over the store a report was answered from, an export with the same *)
(* teacher, group, period and search lists the same rows as the report,    *)
(* each once, with ranks 1..n in descending order of total_points, where   *)
(* the report has them in descending order of id.                          *)
C25_ExportSelectsAsReport ==
    [][\A args \in ExportRequests :
          ( /\ response.op = "report" /\ response.code = 200
            /\ SameQuery(args, response.data)
            /\ \E ranked \in FilteredOrders(args) : export_pdf(args, ranked) )
          => LET rows == response.data.rows
                 table == response'.data
             IN  /\ response'.code = 200
                 /\ Len(table) = Len(rows)
                 /\ {table[i].id : i \in 1..Len(table)} = Range(rows)
                 /\ \A i \in 1..Len(table) : table[i].rank = i
                 /\ \A i, j \in 1..Len(table) :
                       i < j => ~PyLt(table[i].total, table[j].total)
                 /\ \A i, j \in 1..Len(rows) : i < j => rows[i] > rows[j]
      ]_vars

(* Of three rows, the export for one teacher lists her two: the row with   *)
(* id 1 and total 90 first, the row with id 2 and total 60 second.         *)
C25_Witness ==
    /\ response.op = "export_pdf" /\ response.code = 200
    /\ Cardinality(grades) = 3
    /\ Len(response.data) = 2
    /\ response.data[1] = [rank |-> 1, id |-> 1, total |-> 90, status |-> "PASSED"]
    /\ response.data[2] = [rank |-> 2, id |-> 2, total |-> 60, status |-> "FAILED"]

-----------------------------------------------------------------------------
(* compute_risk_ids and the records before the last two (SpecRisk) *)

(* Rows of student sid alone: one with the total latest, or two with the   *)
(* total previous and then the total latest                                *)
OnlyLatest(sid, latest) ==
    <<[student_id |-> sid, total_points |-> latest, created_at |-> 2]>>
OnlyLastTwo(sid, previous, latest) ==
    <<[student_id |-> sid, total_points |-> previous, created_at |-> 1]>>
        \o OnlyLatest(sid, latest)

(* C26: a student is flagged over the rows of a call exactly when the      *)
(* student is flagged over rows that hold nothing but the student's latest *)
(* total and, if there is one, the total before it: the older records and  *)
(* the other students' records make no difference.                         *)
C26_OnlyLastTwoCount ==
    Called =>
      LET rows == response.data.base_rows
          risk_ids == response.data.risk_ids
      IN  \A sid \in StudentIds :
            LET M == RecordsOf(rows, sid)
                pairs == {<<l, p>> \in M \X M :
                            l \in CanBeLatest(rows, M) /\ p \in CanBePrevious(rows, M, l)}
                flagged(lp) ==
                    sid \in compute_risk_ids(OnlyLastTwo(sid, rows[lp[2]].total_points,
                                                         rows[lp[1]].total_points))
            IN  /\ Cardinality(M) = 1
                   => \A l \in M :
                         sid \in risk_ids
                            <=> sid \in compute_risk_ids(OnlyLatest(sid, rows[l].total_points))
                /\ Cardinality(M) >= 2
                   => /\ (\A lp \in pairs : flagged(lp)) => sid \in risk_ids
                      /\ (\A lp \in pairs : ~flagged(lp)) => sid \notin risk_ids

(* 95, then 80, then 78 is not flagged, given with the latest record first. *)
C26_Witness ==
    /\ Called
    /\ response.data.base_rows =
          <<[student_id |-> <<"s","1">>, total_points |-> 78, created_at |-> 3],
            [student_id |-> <<"s","1">>, total_points |-> 80, created_at |-> 2],
            [student_id |-> <<"s","1">>, total_points |-> 95, created_at |-> 1]>>
    /\ response.data.risk_ids = {}

====
